---------------------------- MODULE Spec2Model ----------------------------
(***************************************************************************)
(* bevy_smooth_pixel_camera: the viewport size policy                      *)
(* (ViewportSize::calculate, src/src/viewport.rs), and the four systems of *)
(* src/src/systems.rs (init_camera, update_viewport_size,                  *)
(* set_camera_position, smooth_camera) run once per frame by the plugin.   *)
(*                                                                         *)
(* Numbers.  A WindowResolution is a whole number of logical pixels per    *)
(* axis (scale factor 1, what WindowResolution::new stores), so the f32    *)
(* values width()/height() are whole and `as u32` keeps them.  The u32     *)
(* sums and products of window sizes and strategy parameters stay far      *)
(* below 2^32 and are plain sums and products; the one u32 operation that  *)
(* leaves its range is the subtraction `size - 2` of init_camera, which    *)
(* panics or wraps depending on the build.  f32 quotients (aspect ratios,  *)
(* projection sizes) are exact fractions <<numerator, denominator>>.       *)
(* Positions (Vec2 of f32) are fixed-point numbers counted in 1/PosDen of  *)
(* a pixel.                                                                *)
(*                                                                         *)
(* Records.  A record constructor lists its fields in the order in which   *)
(* the field names first occur in this module: that is the order in which  *)
(* TLC keeps a record, so a record value is stored as it is written.       *)
(***************************************************************************)
EXTENDS Integers, Sequences, FiniteSets, TLC

\* ------------------------------------------------------------------ bounds
\* Number of PixelCamera entities the application may spawn.
NumCams == 2
\* Window widths and heights range over 1..MaxWin.
MaxWin == 4
\* Strategy parameters (scaling, widths, heights, minima, maxima) are 1..MaxParam.
MaxParam == 3
\* Render layers are 0..MaxLayer.
MaxLayer == 1
\* Camera render orders are 0..MaxOrder.
MaxOrder == 1
\* At most MaxDisruptions resources are destroyed or retargeted from outside.
MaxDisruptions == 1

\* ------------------------------------------------------------- arithmetic
\* Resolution of the fixed-point model of the f32 coordinates of subpixel_pos.
PosDen == 10

Min(a, b) == IF a <= b THEN a ELSE b

\* (a / b).ceil() as u32 for whole a >= 0, b >= 1: the f32 quotient rounded up.
CeilDiv(a, b) == (a + b - 1) \div b

RECURSIVE Gcd(_, _)
Gcd(a, b) == IF b = 0 THEN a ELSE Gcd(b, a % b)

\* An f32 quotient n/d of non-negative whole numbers, in lowest terms.
\* <<1, 0>> is +inf and <<0, 0>> is NaN.
Rat(n, d) ==
    LET g == Gcd(n, d) IN IF g = 0 THEN <<0, 0>> ELSE <<n \div g, d \div g>>
RatOfInt(n) == <<n, 1>>
\* a > b on f32 (false when either side is NaN).
RatGT(a, b) == a[1] * b[2] > b[1] * a[2]
\* k as f32 * r
RatScale(k, r) == Rat(k * r[1], r[2])
\* k as f32 / r
RatUnder(k, r) == Rat(k * r[2], r[1])

\* f32::trunc on a fixed-point coordinate: rounds toward zero.
Trunc(p) == IF p >= 0 THEN (p \div PosDen) * PosDen ELSE -((-p) \div PosDen) * PosDen
\* f32 `p % 1.0`: the remainder has the sign of p.
Rem1(p) == IF p >= 0 THEN p % PosDen ELSE -((-p) % PosDen)


\* ------------------------------------------------------------ viewport.rs
\* ClearColorConfig of the host engine: Default, Custom(colour), None.
ClearColorConfig == {"Default", "Custom", "None"}

\* FitMode: Stretch, Crop, Fit(ClearColorConfig).  `color` is only read for Fit.
Stretch == [color |-> "None", mode |-> "Stretch"]
Crop == [color |-> "None", mode |-> "Crop"]
Fit(config) == [color |-> config, mode |-> "Fit"]
FitMode == {Stretch, Crop} \cup {Fit(c) : c \in ClearColorConfig}

\* The functions a caller may hand to ViewportSize::Custom: the window's own
\* size, and the window's size with the axes swapped.
CustomFuncs == {"window", "transposed"}
CustomFunc(func, res) ==
    IF func = "window"
    THEN <<res.width, res.height>>
    ELSE <<res.height, res.width>>

\* ViewportSize, one record shape for the seven variants:
\*   PixelFixed(a), Fixed{width a, height b, fit}, FixedWidth(a), FixedHeight(a),
\*   AutoMin{min_width a, min_height b}, AutoMax{max_width a, max_height b},
\*   Custom{func, fit}.
PixelFixed(scaling) ==
    [a |-> scaling, b |-> 0, func |-> "-", fit |-> Stretch, kind |-> "PixelFixed"]
Fixed(width, height, fit) ==
    [a |-> width, b |-> height, func |-> "-", fit |-> fit, kind |-> "Fixed"]
FixedWidth(width) ==
    [a |-> width, b |-> 0, func |-> "-", fit |-> Stretch, kind |-> "FixedWidth"]
FixedHeight(height) ==
    [a |-> height, b |-> 0, func |-> "-", fit |-> Stretch, kind |-> "FixedHeight"]
AutoMin(min_width, min_height) ==
    [a |-> min_width, b |-> min_height, func |-> "-", fit |-> Stretch, kind |-> "AutoMin"]
AutoMax(max_width, max_height) ==
    [a |-> max_width, b |-> max_height, func |-> "-", fit |-> Stretch, kind |-> "AutoMax"]
Custom(func, fit) ==
    [a |-> 0, b |-> 0, func |-> func, fit |-> fit, kind |-> "Custom"]

Extent3d(width, height) == [width |-> width, height |-> height]

\* Faulty variant: the quotient is rounded down instead of up.
CalcPixelFixedFloor(scaling, window_width, window_height) ==
    Extent3d(window_width \div scaling, window_height \div scaling)

\* Faulty variant: the operands of the division are swapped.
CalcPixelFixedSwapped(scaling, window_width, window_height) ==
    Extent3d(CeilDiv(scaling, window_width), CeilDiv(scaling, window_height))

\* ViewportSize::calculate, PixelFixed arm.
CalcPixelFixed(scaling, window_width, window_height) ==
    Extent3d(CeilDiv(window_width, scaling), CeilDiv(window_height, scaling))

\* Faulty variant: the height is rounded up.
CalcFixedWidthCeil(width, window_width, window_height) ==
    Extent3d(width, CeilDiv(window_height * width, window_width))

\* ViewportSize::calculate, FixedWidth arm.
CalcFixedWidth(width, window_width, window_height) ==
    Extent3d(width, (window_height * width) \div window_width)

\* ViewportSize::calculate, FixedHeight arm.
CalcFixedHeight(height, window_width, window_height) ==
    Extent3d((window_width * height) \div window_height, height)

\* Faulty variant: the comparison is the one of AutoMax.
CalcAutoMinFlipped(min_width, min_height, window_width, window_height) ==
    IF window_width * min_height < min_width * window_height
    THEN Extent3d((window_width * min_height) \div window_height, min_height)
    ELSE Extent3d(min_width, (window_height * min_width) \div window_width)

\* ViewportSize::calculate, AutoMin arm.
CalcAutoMin(min_width, min_height, window_width, window_height) ==
    IF window_width * min_height > min_width * window_height
    THEN Extent3d((window_width * min_height) \div window_height, min_height)
    ELSE Extent3d(min_width, (window_height * min_width) \div window_width)

\* Faulty variant: the comparison is the one of AutoMin.
CalcAutoMaxFlipped(max_width, max_height, window_width, window_height) ==
    IF window_width * max_height > max_width * window_height
    THEN Extent3d((window_width * max_height) \div window_height, max_height)
    ELSE Extent3d(max_width, (window_height * max_width) \div window_width)

\* ViewportSize::calculate, AutoMax arm.
CalcAutoMax(max_width, max_height, window_width, window_height) ==
    IF window_width * max_height < max_width * window_height
    THEN Extent3d((window_width * max_height) \div window_height, max_height)
    ELSE Extent3d(max_width, (window_height * max_width) \div window_width)

\* ViewportSize::calculate(&self, window_resolution)
calculate(self, window_resolution) ==
    LET window_width == window_resolution.width
        window_height == window_resolution.height
    IN  CASE self.kind = "PixelFixed" ->
                CalcPixelFixed(self.a, window_width, window_height)
          [] self.kind = "Fixed" -> Extent3d(self.a, self.b)
          [] self.kind = "FixedWidth" ->
                CalcFixedWidth(self.a, window_width, window_height)
          [] self.kind = "FixedHeight" ->
                CalcFixedHeight(self.a, window_width, window_height)
          [] self.kind = "AutoMin" ->
                CalcAutoMin(self.a, self.b, window_width, window_height)
          [] self.kind = "AutoMax" ->
                CalcAutoMax(self.a, self.b, window_width, window_height)
          [] self.kind = "Custom" ->
                LET r == CustomFunc(self.func, window_resolution)
                IN  Extent3d(r[1], r[2])

\* Faulty variant: the Custom strategy is left out of the pattern.
ClearColorFixedOnly(self) ==
    IF self.kind = "Fixed" /\ self.fit.mode = "Fit"
    THEN self.fit.color
    ELSE "None"

\* ViewportSize::clear_color(&self)
clear_color(self) ==
    IF self.kind \in {"Fixed", "Custom"} /\ self.fit.mode = "Fit"
    THEN self.fit.color
    ELSE "None"

\* ------------------------------------------------------------- the world
\* The PixelCamera entities the application may spawn.
Cams == 1 .. NumCams
\* The window entities: "win1" carries the PrimaryWindow marker.
Windows == {"win1", "win2"}
PrimaryWindow == "win1"
\* The systems the plugin adds to the Update schedule, as one tuple with no
\* order among them.  (The add_systems call of lib.rs names init_camera,
\* update_viewport_size and smooth_camera; set_camera_position, the half of
\* position-apply that systems.rs keeps in a system of its own, runs in the
\* same schedule.)
Systems == {"init_camera", "update_viewport_size", "set_camera_position", "smooth_camera"}

\* RenderLayers: a set of layers; RenderLayers::none() is the empty set.
Layers == 0 .. MaxLayer
RenderLayers == SUBSET Layers
RenderLayersLayer(n) == {n}
intersects(a, b) == a \cap b # {}
\* Option<&RenderLayers> of the world camera.
NoLayers == [layers |-> {}, some |-> FALSE]
SomeLayers(l) == [layers |-> l, some |-> TRUE]

\* RenderTarget: Window(WindowRef::Primary | WindowRef::Entity(e)), Image(handle),
\* TextureView.
TargetWindow(window_ref) == [kind |-> "Window", image |-> 0, window |-> window_ref]
TargetImage(handle) == [kind |-> "Image", image |-> handle, window |-> "-"]
TargetTextureView == [kind |-> "TextureView", image |-> 0, window |-> "-"]

Vec2(x, y) == [x |-> x, y |-> y]
NoRect == [some |-> FALSE, max |-> Vec2(0, 0), min |-> Vec2(0, 0)]
SomeRect(min, max) == [some |-> TRUE, max |-> max, min |-> min]
\* ScalingMode::Fixed { width, height } of an orthographic projection.
ScalingFixed(width, height) == [width |-> width, height |-> height]

NoReferences == [camera |-> 0, sprite |-> 0, state |-> "none"]

VARIABLES
    windows,          \* Window entities: [exists, resolution, changed]
    spawned,          \* the PixelCamera entities that exist
    added,            \* entities whose PixelCamera init_camera has not yet seen (Added<PixelCamera>)
    pixel_camera,     \* PixelCamera component of each entity
    camera,           \* Camera component of each PixelCamera entity: [order, target]
    world_layer,      \* Option<RenderLayers> of each PixelCamera entity
    transform,        \* Transform.translation (x, y) of each PixelCamera entity
    references,       \* PixelViewportReferences of each entity ("queued": insert not yet applied)
    images,           \* Assets<Image>: handle -> [live, size]
    sprites,          \* viewport sprite entities: [state, texture, rect, layer]
    viewport_cameras, \* viewport camera entities: [state, order, clear_color, scaling_mode, target, layer]
    ran,              \* the systems that have run in the current frame
    errors,           \* the error! messages of the current frame
    crashed,          \* a system panicked: the application is gone
    overflow_checks,  \* the build panics on integer overflow (debug) or wraps (release)
    disruptions,      \* number of outside destructions and retargetings so far
    origin            \* history: a frame-end snapshot [taken, resolution, sizes] of the render targets

vars == <<windows, spawned, added, pixel_camera, camera, world_layer, transform,
          references, images, sprites, viewport_cameras, ran, errors, crashed,
          overflow_checks, disruptions, origin>>

\* The part of the world the systems write, as one record.
World ==
    [camera |-> camera, windows |-> windows, added |-> added, transform |-> transform,
     references |-> references, images |-> images, sprites |-> sprites,
     viewport_cameras |-> viewport_cameras, errors |-> errors, crashed |-> crashed,
     stop |-> FALSE]

Commit(w) ==
    /\ windows' = w.windows
    /\ added' = w.added
    /\ camera' = w.camera
    /\ transform' = w.transform
    /\ references' = w.references
    /\ images' = w.images
    /\ sprites' = w.sprites
    /\ viewport_cameras' = w.viewport_cameras
    /\ errors' = w.errors
    /\ crashed' = w.crashed

\* error!(...): one message of the frame's log.
Error(w, system, entity, message) ==
    [w EXCEPT !.errors = @ \cup {[system |-> system, entity |-> entity, message |-> message]}]
\* A panic: the schedule and the application stop here.
Panic(w) == [w EXCEPT !.crashed = TRUE]
\* `return` out of a system's loop.
Return(w) == [w EXCEPT !.stop = TRUE]

\* The orders in which a query may hand out the entities of S.
Orders(S) ==
    {o \in [1 .. Cardinality(S) -> S] : \A i, j \in 1 .. Cardinality(S) : o[i] = o[j] => i = j}

\* ------------------------------------------------------------ init_camera
\* The f32 value 2^32: what `(size - 2) as f32` is once the u32 subtraction has
\* wrapped to 2^32 - 1 or 2^32 - 2 (beyond the integers of the model checker).
F32Wrapped == <<-1, 1>>
\* `(n - 2) as f32` in a build that wraps on overflow.
MinusTwoAsF32(n) == IF n >= 2 THEN RatOfInt(n - 2) ELSE F32Wrapped

\* init_camera's render-layer checks on one camera: the error, or "ok".
LayerCheck(viewport_layer, layer) ==
    IF layer.some
    THEN IF intersects(layer.layers, viewport_layer) THEN "world_layers_intersect" ELSE "ok"
    ELSE IF intersects(viewport_layer, RenderLayersLayer(0)) THEN "default_layer_intersects"
    ELSE IF viewport_layer = {} THEN "no_render_layers"
    ELSE "ok"

\* Faulty variant: a camera order equal to the viewport order is accepted.
OrderCheckStrict(order, viewport_order) ==
    IF order > viewport_order THEN "order_not_below_viewport" ELSE "ok"

\* init_camera's render-order check on one camera: the error, or "ok".
OrderCheck(order, viewport_order) ==
    IF order >= viewport_order THEN "order_not_below_viewport" ELSE "ok"

\* The size of the render target init_camera creates.
InitSize(viewport_size, smoothing, resolution) ==
    LET size == calculate(viewport_size, resolution)
    IN  IF smoothing THEN Extent3d(size.width + 2, size.height + 2) ELSE size

\* Faulty variant: the Added<PixelCamera> filter is missing.
InitQueryAll == spawned

\* Query<(&PixelCamera, &mut Camera, Option<&RenderLayers>, Entity), Added<PixelCamera>>
InitQuery == {entity \in spawned : entity \in added}

\* The body of init_camera's loop for one entity; `window` is the single window.
InitCameraBody(w, entity, window) ==
    LET pc == pixel_camera[entity]
        layer_error == LayerCheck(pc.viewport_layer, world_layer[entity])
        order_error == OrderCheck(w.camera[entity].order, pc.viewport_order)
        size == InitSize(pc.viewport_size, pc.smoothing, window.resolution)
        image_handle == Len(w.images) + 1
        viewport_sprite == Len(w.sprites) + 1
        viewport_camera == Len(w.viewport_cameras) + 1
        w1 == [w EXCEPT !.images = Append(@, [size |-> size, live |-> TRUE]),
                        !.camera[entity].target = TargetImage(image_handle),
                        !.sprites = Append(@, [state |-> "queued",
                                               layer |-> pc.viewport_layer,
                                               rect |-> NoRect,
                                               texture |-> image_handle])]
    IN  IF layer_error # "ok" THEN Return(Error(w, "init_camera", entity, layer_error))
        ELSE IF order_error # "ok" THEN Return(Error(w, "init_camera", entity, order_error))
        ELSE IF overflow_checks /\ (size.width < 2 \/ size.height < 2) THEN Panic(w1)
        ELSE [w1 EXCEPT
                !.viewport_cameras =
                    Append(@, [clear_color |-> clear_color(pc.viewport_size),
                               state |-> "queued",
                               layer |-> pc.viewport_layer,
                               order |-> pc.viewport_order,
                               target |-> TargetWindow("Primary"),
                               scaling_mode |-> ScalingFixed(MinusTwoAsF32(size.width),
                                                             MinusTwoAsF32(size.height))]),
                !.references[entity] = [camera |-> viewport_camera,
                                        sprite |-> viewport_sprite,
                                        state |-> "queued"]]

RECURSIVE InitCameraLoop(_, _, _)
InitCameraLoop(w, order, window) ==
    IF order = <<>> \/ w.stop \/ w.crashed THEN w
    ELSE InitCameraLoop(InitCameraBody(w, Head(order), window), Tail(order), window)

\* init_camera, with the query handing out its entities in `order`.
\* window_query.single() panics unless exactly one window exists.
init_camera(w, order) ==
    LET open == {win \in Windows : w.windows[win].exists}
    IN  IF Cardinality(open) # 1 THEN Panic(w)
        ELSE LET window == w.windows[CHOOSE win \in open : TRUE]
                 w1 == InitCameraLoop(w, order, window)
             IN  \* the system has now seen every PixelCamera added so far
                 [w1 EXCEPT !.added = {}, !.stop = FALSE]

\* --------------------------------------------------- update_viewport_size
\* Faulty variant: the comparison of the two aspect ratios is reversed.
FitProjectionFlipped(new_size, aspect_ratio) ==
    IF RatGT(Rat(new_size.width, new_size.height), aspect_ratio)
    THEN ScalingFixed(RatScale(new_size.height, aspect_ratio), RatOfInt(new_size.height))
    ELSE ScalingFixed(RatOfInt(new_size.width), RatUnder(new_size.width, aspect_ratio))

\* The FitMode::Fit arm: the projection around the viewport.
FitProjection(new_size, aspect_ratio) ==
    IF RatGT(aspect_ratio, Rat(new_size.width, new_size.height))
    THEN ScalingFixed(RatScale(new_size.height, aspect_ratio), RatOfInt(new_size.height))
    ELSE ScalingFixed(RatOfInt(new_size.width), RatUnder(new_size.width, aspect_ratio))

\* Faulty variant: the longer axis of the viewport is taken, not the shorter.
CropProjectionLonger(new_size, aspect_ratio) ==
    LET axis == IF new_size.height >= new_size.width THEN new_size.height ELSE new_size.width
    IN  IF RatGT(aspect_ratio, RatOfInt(1))
        THEN ScalingFixed(RatOfInt(axis), RatUnder(axis, aspect_ratio))
        ELSE ScalingFixed(RatScale(axis, aspect_ratio), RatOfInt(axis))

\* The FitMode::Crop arm: the projection inside the viewport.
CropProjection(new_size, aspect_ratio) ==
    LET axis == Min(new_size.height, new_size.width)
    IN  IF RatGT(aspect_ratio, RatOfInt(1))
        THEN ScalingFixed(RatOfInt(axis), RatUnder(axis, aspect_ratio))
        ELSE ScalingFixed(RatScale(axis, aspect_ratio), RatOfInt(axis))

\* The projection the fit mode asks for, from the viewport size and the aspect
\* ratio of what the viewport camera renders to.
FitScaling(viewport_size, new_size, aspect_ratio) ==
    IF viewport_size.kind \in {"Fixed", "Custom"}
    THEN CASE viewport_size.fit.mode = "Fit" -> FitProjection(new_size, aspect_ratio)
           [] viewport_size.fit.mode = "Crop" -> CropProjection(new_size, aspect_ratio)
           [] viewport_size.fit.mode = "Stretch" ->
                ScalingFixed(RatOfInt(new_size.width), RatOfInt(new_size.height))
    ELSE ScalingFixed(RatOfInt(new_size.width), RatOfInt(new_size.height))

\* Faulty variant: the smoothing border is forgotten on resize.
ResizeSizeNoBorder(new_size, smoothing) == new_size

\* The size update_viewport_size gives the render target.
ResizeSize(new_size, smoothing) ==
    IF smoothing THEN Extent3d(new_size.width + 2, new_size.height + 2) ELSE new_size

\* Faulty variant: a resize never shrinks the image.
ImageResizeGrow(image, new_size) ==
    [image EXCEPT !.size = Extent3d(IF new_size.width > @.width THEN new_size.width ELSE @.width,
                                    IF new_size.height > @.height THEN new_size.height ELSE @.height)]

\* Image::resize(new_size)
ImageResize(image, new_size) == [image EXCEPT !.size = new_size]

\* Faulty variant: every window counts as changed in every frame.
IsChangedAlways(window) == TRUE

\* Ref<Window>::is_changed(), as update_viewport_size sees it.
IsChanged(window) == window.changed

\* Query<(Entity, &PixelCamera, &Camera, &PixelViewportReferences), Without<ViewportCamera>>
PrimaryCameras == {entity \in spawned : references[entity].state = "inserted"}

\* The tail of the loop body: projection, clear colour and render-target size.
ApplyViewportSize(w, entity, new_size, aspect_ratio) ==
    LET pc == pixel_camera[entity]
        viewport == w.references[entity]
        target == w.camera[entity].target
        size == ResizeSize(new_size, pc.smoothing)
        w1 == [w EXCEPT
                !.viewport_cameras[viewport.camera].scaling_mode =
                    FitScaling(pc.viewport_size, new_size, aspect_ratio),
                !.viewport_cameras[viewport.camera].clear_color =
                    IF pc.viewport_size.kind \in {"Fixed", "Custom"}
                       /\ pc.viewport_size.fit.mode = "Fit"
                    THEN pc.viewport_size.fit.color
                    ELSE @]
    IN  IF target.kind # "Image" THEN w1
        ELSE IF w1.images[target.image].live
        THEN [w1 EXCEPT !.images[target.image] = ImageResize(@, size)]
        ELSE Error(w1, "update_viewport_size", entity, "render_target_image_missing")

\* The body of update_viewport_size's loop for one entity.
UpdateViewportSizeBody(w, entity) ==
    LET pc == pixel_camera[entity]
        viewport == w.references[entity]
        viewport_camera == w.viewport_cameras[viewport.camera]
        target == viewport_camera.target
        window_id == IF target.window = "Primary" THEN PrimaryWindow ELSE target.window
    IN  IF viewport_camera.state # "alive"
        THEN Error(w, "update_viewport_size", entity, "viewport_camera_missing")
        ELSE CASE target.kind = "Window" ->
                    IF ~w.windows[window_id].exists
                    THEN Error(w, "update_viewport_size", entity, "window_missing")
                    ELSE IF ~IsChanged(w.windows[window_id]) THEN w
                    ELSE LET resolution == w.windows[window_id].resolution
                         IN  ApplyViewportSize(w, entity,
                                 calculate(pc.viewport_size, resolution),
                                 Rat(resolution.width, resolution.height))
               [] target.kind = "Image" ->
                    IF ~w.images[target.image].live THEN Panic(w)
                    ELSE LET size == w.images[target.image].size
                         IN  ApplyViewportSize(w, entity, size,
                                 Rat(size.width, size.height))
               [] target.kind = "TextureView" ->
                    Return(Error(w, "update_viewport_size", 0, "texture_view_unsupported"))

RECURSIVE UpdateViewportSizeLoop(_, _)
UpdateViewportSizeLoop(w, order) ==
    IF order = <<>> \/ w.stop \/ w.crashed THEN w
    ELSE UpdateViewportSizeLoop(UpdateViewportSizeBody(w, Head(order)), Tail(order))

\* update_viewport_size, with the query handing out its entities in `order`.
update_viewport_size(w, order) ==
    LET w1 == UpdateViewportSizeLoop(w, order)
    IN  \* the system has now seen every window change made so far
        [w1 EXCEPT !.windows = [win \in Windows |-> [@[win] EXCEPT !.changed = FALSE]],
                   !.stop = FALSE]

\* ---------------------------------------------------- set_camera_position
\* Query<(&PixelCamera, &mut Transform)>
PositionQuery == spawned

set_camera_position(w) ==
    [w EXCEPT !.transform =
        [entity \in Cams |->
            IF entity \in PositionQuery
            THEN Vec2(Trunc(pixel_camera[entity].subpixel_pos.x),
                      Trunc(pixel_camera[entity].subpixel_pos.y))
            ELSE @[entity]]]

\* ----------------------------------------------------------- smooth_camera
\* Query<(&PixelCamera, &PixelViewportReferences)>
SmoothQuery == {entity \in spawned : references[entity].state = "inserted"}

\* The remainder smooth_camera moves the sprite's rect by.
Remainder(subpixel_pos) == Vec2(Rem1(subpixel_pos.x), Rem1(-subpixel_pos.y))

\* The rect smooth_camera gives the sprite, in 1/PosDen of a pixel.
SmoothRect(size, remainder) ==
    SomeRect(Vec2(PosDen + remainder.x, PosDen + remainder.y),
             Vec2(size.width * PosDen - PosDen + remainder.x,
                  size.height * PosDen - PosDen + remainder.y))

\* The body of smooth_camera's loop for one entity.
SmoothCameraBody(w, entity) ==
    LET pc == pixel_camera[entity]
        viewport == w.references[entity]
        sprite == w.sprites[viewport.sprite]
    IN  IF ~pc.smoothing THEN w
        ELSE IF sprite.state # "alive" THEN Panic(w)
        ELSE IF ~w.images[sprite.texture].live
        THEN Error(w, "smooth_camera", entity, "viewport_image_missing")
        ELSE [w EXCEPT !.sprites[viewport.sprite].rect =
                SmoothRect(w.images[sprite.texture].size, Remainder(pc.subpixel_pos))]

RECURSIVE SmoothCameraLoop(_, _)
SmoothCameraLoop(w, order) ==
    IF order = <<>> \/ w.crashed THEN w
    ELSE SmoothCameraLoop(SmoothCameraBody(w, Head(order)), Tail(order))

smooth_camera(w, order) == SmoothCameraLoop(w, order)

\* ------------------------------------------------------------- the frame
\* The plugin's systems run once per frame, in any order; the commands they
\* queued are applied when all of them have run.
RunInitCamera ==
    /\ ~crashed
    /\ "init_camera" \notin ran
    /\ \E order \in Orders(InitQuery) : Commit(init_camera(World, order))
    /\ ran' = ran \cup {"init_camera"}
    /\ UNCHANGED <<spawned, pixel_camera, world_layer, overflow_checks, disruptions, origin>>

RunUpdateViewportSize ==
    /\ ~crashed
    /\ "update_viewport_size" \notin ran
    /\ \E order \in Orders(PrimaryCameras) : Commit(update_viewport_size(World, order))
    /\ ran' = ran \cup {"update_viewport_size"}
    /\ UNCHANGED <<spawned, pixel_camera, world_layer, overflow_checks, disruptions, origin>>

RunSetCameraPosition ==
    /\ ~crashed
    /\ "set_camera_position" \notin ran
    /\ Commit(set_camera_position(World))
    /\ ran' = ran \cup {"set_camera_position"}
    /\ UNCHANGED <<spawned, pixel_camera, world_layer, overflow_checks, disruptions, origin>>

RunSmoothCamera ==
    /\ ~crashed
    /\ "smooth_camera" \notin ran
    /\ \E order \in Orders(SmoothQuery) : Commit(smooth_camera(World, order))
    /\ ran' = ran \cup {"smooth_camera"}
    /\ UNCHANGED <<spawned, pixel_camera, world_layer, overflow_checks, disruptions, origin>>

\* The render target of a PixelCamera entity: [bound, size].
RenderTarget(entity) ==
    IF entity \in spawned /\ camera[entity].target.kind = "Image"
    THEN [size |-> images[camera[entity].target.image].size, bound |-> TRUE]
    ELSE [size |-> Extent3d(0, 0), bound |-> FALSE]

\* History: the frame ends at another resolution than the recorded one.
LeftOrigin == windows[PrimaryWindow].resolution # origin.resolution

\* Commands applied: the queued spawns and inserts take effect.
ApplyDeferred(entities) ==
    [i \in 1 .. Len(entities) |->
        IF entities[i].state = "queued" THEN [entities[i] EXCEPT !.state = "alive"]
        ELSE entities[i]]

EndFrame ==
    /\ ~crashed
    /\ ran = Systems
    /\ sprites' = ApplyDeferred(sprites)
    /\ viewport_cameras' = ApplyDeferred(viewport_cameras)
    /\ references' = [entity \in Cams |->
            IF references[entity].state = "queued"
            THEN [references[entity] EXCEPT !.state = "inserted"]
            ELSE references[entity]]
    /\ ran' = {}
    /\ errors' = {}
    /\ origin' = [origin EXCEPT !.away = @ \/ (origin.taken /\ LeftOrigin)]
    /\ UNCHANGED <<windows, spawned, added, pixel_camera, camera, world_layer, transform,
                   images, crashed, overflow_checks, disruptions>>

\* ------------------------------------------------------- the application
\* Between frames the application and the windowing system act.
Idle == ~crashed /\ ran = {}

\* commands.spawn((Camera2dBundle { camera: Camera { order, .. }, .. }, layers?, PixelCamera { .. }))
SpawnCamera(entity, configs) ==
    /\ Idle
    /\ entity \notin spawned
    /\ \E config \in configs :
        /\ pixel_camera' = [pixel_camera EXCEPT ![entity] =
                [viewport_layer |-> config.viewport_layer,
                 viewport_order |-> config.viewport_order,
                 viewport_size |-> config.viewport_size,
                 smoothing |-> config.smoothing,
                 subpixel_pos |-> Vec2(0, 0)]]
        /\ camera' = [camera EXCEPT ![entity] =
                [order |-> config.order, target |-> TargetWindow("Primary")]]
        /\ world_layer' = [world_layer EXCEPT ![entity] = config.world_layer]
    /\ spawned' = spawned \cup {entity}
    /\ added' = added \cup {entity}
    /\ UNCHANGED <<windows, transform, references, images, sprites, viewport_cameras,
                   ran, errors, crashed, overflow_checks, disruptions, origin>>

\* The windowing system resizes a window.
ResizeWindow(win, resolutions) ==
    /\ Idle
    /\ windows[win].exists
    /\ \E resolution \in resolutions \ {windows[win].resolution} :
        windows' = [windows EXCEPT ![win].resolution = resolution, ![win].changed = TRUE]
    /\ UNCHANGED <<spawned, added, pixel_camera, camera, world_layer, transform, references,
                   images, sprites, viewport_cameras, ran, errors, crashed, overflow_checks,
                   disruptions, origin>>

\* The application moves a camera: camera.subpixel_pos = position.
MoveCamera(entity, positions) ==
    /\ Idle
    /\ entity \in spawned
    /\ \E position \in positions \ {pixel_camera[entity].subpixel_pos} :
        pixel_camera' = [pixel_camera EXCEPT ![entity].subpixel_pos = position]
    /\ UNCHANGED <<windows, spawned, added, camera, world_layer, transform, references,
                   images, sprites, viewport_cameras, ran, errors, crashed, overflow_checks,
                   disruptions, origin>>

\* The application switches a camera's smoothing on or off: camera.smoothing = !camera.smoothing.
SetSmoothing(entity) ==
    /\ Idle
    /\ entity \in spawned
    /\ pixel_camera' = [pixel_camera EXCEPT ![entity].smoothing = ~@]
    /\ UNCHANGED <<windows, spawned, added, camera, world_layer, transform, references,
                   images, sprites, viewport_cameras, ran, errors, crashed, overflow_checks,
                   disruptions, origin>>

Disrupt ==
    /\ Idle
    /\ disruptions < MaxDisruptions
    /\ disruptions' = disruptions + 1

\* A second window opens, or a closed window reopens.
OpenWindow(win, resolutions) ==
    /\ Disrupt
    /\ ~windows[win].exists
    /\ \E resolution \in resolutions :
        windows' = [windows EXCEPT ![win] =
            [resolution |-> resolution, exists |-> TRUE, changed |-> TRUE]]
    /\ UNCHANGED <<spawned, added, pixel_camera, camera, world_layer, transform, references,
                   images, sprites, viewport_cameras, ran, errors, crashed, overflow_checks,
                   origin>>

\* A window closes: its entity is despawned.
CloseWindow(win) ==
    /\ Disrupt
    /\ windows[win].exists
    /\ windows' = [windows EXCEPT ![win].exists = FALSE]
    /\ UNCHANGED <<spawned, added, pixel_camera, camera, world_layer, transform, references,
                   images, sprites, viewport_cameras, ran, errors, crashed, overflow_checks,
                   origin>>

\* images.remove(handle) by the application.
RemoveImage(handle) ==
    /\ Disrupt
    /\ images[handle].live
    /\ images' = [images EXCEPT ![handle].live = FALSE]
    /\ UNCHANGED <<windows, spawned, added, pixel_camera, camera, world_layer, transform,
                   references, sprites, viewport_cameras, ran, errors, crashed,
                   overflow_checks, origin>>

\* commands.entity(viewport_camera).despawn() by the application.
DespawnViewportCamera(id) ==
    /\ Disrupt
    /\ viewport_cameras[id].state = "alive"
    /\ viewport_cameras' = [viewport_cameras EXCEPT ![id].state = "despawned"]
    /\ UNCHANGED <<windows, spawned, added, pixel_camera, camera, world_layer, transform,
                   references, images, sprites, ran, errors, crashed, overflow_checks,
                   origin>>

\* commands.entity(viewport_sprite).despawn() by the application.
DespawnSprite(id) ==
    /\ Disrupt
    /\ sprites[id].state = "alive"
    /\ sprites' = [sprites EXCEPT ![id].state = "despawned"]
    /\ UNCHANGED <<windows, spawned, added, pixel_camera, camera, world_layer, transform,
                   references, images, viewport_cameras, ran, errors, crashed,
                   overflow_checks, origin>>

\* The application points a viewport camera at another render target.
RetargetViewportCamera(id, targets) ==
    /\ Disrupt
    /\ viewport_cameras[id].state = "alive"
    /\ \E target \in targets \ {viewport_cameras[id].target} :
        viewport_cameras' = [viewport_cameras EXCEPT ![id].target = target]
    /\ UNCHANGED <<windows, spawned, added, pixel_camera, camera, world_layer, transform,
                   references, images, sprites, ran, errors, crashed, overflow_checks,
                   origin>>

\* History: record the resolution and the render-target sizes of a settled
\* frame end, once, to compare later frame ends with.
Observe ==
    /\ Idle
    /\ ~origin.taken
    /\ ~windows[PrimaryWindow].changed
    /\ \E entity \in Cams : RenderTarget(entity).bound
    /\ origin' = [resolution |-> windows[PrimaryWindow].resolution, away |-> FALSE,
                  taken |-> TRUE,
                  sizes |-> [entity \in Cams |-> RenderTarget(entity)]]
    /\ UNCHANGED <<windows, spawned, added, pixel_camera, camera, world_layer, transform,
                   references, images, sprites, viewport_cameras, ran, errors, crashed,
                   overflow_checks, disruptions>>

\* ------------------------------------------------------------- the inputs
\* Window resolutions: every size up to MaxWin, and the 800 x 600 window.
Resolutions == {Extent3d(width, height) : width \in 1 .. MaxWin, height \in 1 .. MaxWin}
SampleResolutions == Resolutions \cup {Extent3d(800, 600)}

\* The scaling of ViewportSize::default().
DefaultScaling == 4

\* Every sizing strategy with parameters up to MaxParam, and the default one.
Params == 1 .. MaxParam
ViewportSizes ==
    {PixelFixed(n) : n \in Params \cup {DefaultScaling}}
    \cup {Fixed(a, b, fit) : a \in Params, b \in Params, fit \in FitMode}
    \cup {FixedWidth(a) : a \in Params}
    \cup {FixedHeight(a) : a \in Params}
    \cup {AutoMin(a, b) : a \in Params, b \in Params}
    \cup {AutoMax(a, b) : a \in Params, b \in Params}
    \cup {Custom(func, fit) : func \in CustomFuncs, fit \in FitMode}

\* PixelCamera::default() on a Camera2dBundle::default(): viewport order 1 above
\* camera order 0, viewport on layer 1, no RenderLayers on the world camera.
DefaultConfig(viewport_size, smoothing) ==
    [world_layer |-> NoLayers, viewport_layer |-> RenderLayersLayer(1),
     order |-> 0, viewport_order |-> 1,
     viewport_size |-> viewport_size, smoothing |-> smoothing]

\* Cameras with every sizing strategy, otherwise configured by default.
ViewportConfigs ==
    {DefaultConfig(viewport_size, smoothing) :
        viewport_size \in ViewportSizes, smoothing \in BOOLEAN}

\* Cameras of the sizing strategies that follow the window.
RoundTripConfigs ==
    {DefaultConfig(viewport_size, smoothing) :
        viewport_size \in {PixelFixed(n) : n \in Params}
                          \cup {FixedWidth(MaxParam), AutoMin(MaxParam, 1),
                                AutoMax(1, MaxParam), Custom("transposed", Stretch)},
        smoothing \in BOOLEAN}

\* Cameras with every combination of render layers and render orders.
BindConfigs ==
    {[world_layer |-> layer, viewport_layer |-> viewport_layer,
      order |-> order, viewport_order |-> 1,
      viewport_size |-> PixelFixed(1), smoothing |-> smoothing] :
        smoothing \in BOOLEAN, viewport_layer \in RenderLayers, order \in 0 .. MaxOrder,
        layer \in {NoLayers} \cup {SomeLayers(l) : l \in RenderLayers}}

\* Cameras of two sizing strategies, with the camera's render order below the
\* viewport's or not.
MainConfigs ==
    {[world_layer |-> NoLayers, viewport_layer |-> RenderLayersLayer(1),
      order |-> order, viewport_order |-> 1,
      viewport_size |-> viewport_size, smoothing |-> smoothing] :
        viewport_size \in {PixelFixed(2), Fixed(1, 2, Fit("Custom"))},
        smoothing \in BOOLEAN, order \in 0 .. MaxOrder}

\* Camera coordinates, in 1/PosDen: whole and fractional, of either sign
\* (3.7 and -2.3 among them).
Coordinates == {-(2 * PosDen + 3), -PosDen, -7, 0, 7, PosDen, 3 * PosDen + 7}
Positions == {Vec2(x, y) : x \in Coordinates, y \in Coordinates}
FewResolutions == {Extent3d(MaxWin, MaxWin), Extent3d(MaxWin, 1)}
\* Small, middle and large windows of every shape.
SomeResolutions ==
    {Extent3d(width, height) : width \in {1, 2, MaxWin}, height \in {1, 2, MaxWin}}

\* The render targets an application may point a viewport camera at.
ViewportTargets ==
    {TargetWindow("Primary"), TargetTextureView} \cup {TargetWindow(win) : win \in Windows}

\* ------------------------------------------------------ the specifications
NoPixelCamera ==
    [viewport_layer |-> RenderLayersLayer(1), viewport_order |-> 1,
     viewport_size |-> PixelFixed(DefaultScaling), smoothing |-> TRUE, subpixel_pos |-> Vec2(0, 0)]

\* The application has started: its primary window is open, nothing is spawned.
Init ==
    /\ windows = [win \in Windows |->
            [resolution |-> Extent3d(MaxWin, MaxWin), exists |-> win = PrimaryWindow,
             changed |-> win = PrimaryWindow]]
    /\ spawned = {}
    /\ added = {}
    /\ pixel_camera = [entity \in Cams |-> NoPixelCamera]
    /\ camera = [entity \in Cams |-> [order |-> 0, target |-> TargetWindow("Primary")]]
    /\ world_layer = [entity \in Cams |-> NoLayers]
    /\ transform = [entity \in Cams |-> Vec2(0, 0)]
    /\ references = [entity \in Cams |-> NoReferences]
    /\ images = <<>>
    /\ sprites = <<>>
    /\ viewport_cameras = <<>>
    /\ ran = {}
    /\ errors = {}
    /\ crashed = FALSE
    /\ overflow_checks \in BOOLEAN
    /\ disruptions = 0
    /\ origin = [resolution |-> Extent3d(0, 0), away |-> FALSE, taken |-> FALSE,
                 sizes |-> [entity \in Cams |-> [size |-> Extent3d(0, 0), bound |-> FALSE]]]

Frame ==
    \/ RunInitCamera
    \/ RunUpdateViewportSize
    \/ RunSetCameraPosition
    \/ RunSmoothCamera
    \/ EndFrame

\* Several cameras, and the outside world resizing, destroying and retargeting.
Next ==
    \/ Frame
    \/ \E entity \in Cams : SpawnCamera(entity, MainConfigs)
    \/ \E win \in Windows : ResizeWindow(win, FewResolutions)
    \/ \E win \in Windows : OpenWindow(win, {Extent3d(MaxWin, MaxWin)})
    \/ \E win \in Windows : CloseWindow(win)
    \/ \E handle \in 1 .. Len(images) : RemoveImage(handle)
    \/ \E id \in 1 .. Len(viewport_cameras) : DespawnViewportCamera(id)
    \/ \E id \in 1 .. Len(sprites) : DespawnSprite(id)
    \/ \E id \in 1 .. Len(viewport_cameras) : RetargetViewportCamera(id, ViewportTargets)

Spec == Init /\ [][Next]_vars

\* Several cameras with every configuration of render layers and orders.
NextBind ==
    \/ Frame
    \/ \E entity \in Cams : SpawnCamera(entity, BindConfigs)

SpecBind == Init /\ [][NextBind]_vars

\* One camera of any sizing strategy under a window that is resized.
NextViewport ==
    \/ Frame
    \/ SpawnCamera(1, ViewportConfigs)
    \/ ResizeWindow(PrimaryWindow, SampleResolutions)

SpecViewport == Init /\ [][NextViewport]_vars

\* One camera whose render target is recorded and compared across resizes.
NextRoundTrip ==
    \/ Frame
    \/ SpawnCamera(1, RoundTripConfigs)
    \/ ResizeWindow(PrimaryWindow, SomeResolutions)
    \/ Observe

SpecRoundTrip == Init /\ [][NextRoundTrip]_vars

\* One default camera that the application moves.
NextPosition ==
    \/ Frame
    \/ SpawnCamera(1, {DefaultConfig(PixelFixed(1), smoothing) : smoothing \in BOOLEAN})
    \/ MoveCamera(1, Positions)

SpecPosition == Init /\ [][NextPosition]_vars

\* One camera, correctly configured or not, that the application moves.
NextUnbound ==
    \/ Frame
    \/ SpawnCamera(1, MainConfigs)
    \/ MoveCamera(1, Positions)

SpecUnbound == Init /\ [][NextUnbound]_vars

\* One default camera that the application moves and whose smoothing it
\* switches on and off.
NextSmoothing ==
    \/ Frame
    \/ SpawnCamera(1, {DefaultConfig(PixelFixed(1), smoothing) : smoothing \in BOOLEAN})
    \/ MoveCamera(1, Positions)
    \/ SetSmoothing(1)

SpecSmoothing == Init /\ [][NextSmoothing]_vars

\* ---------------------------------------------------------- the properties
\* The resolution of the primary window, and what the sizing strategy of a
\* camera makes of it.
Resolution == windows[PrimaryWindow].resolution
PolicySize(entity) == calculate(pixel_camera[entity].viewport_size, Resolution)
Border(entity) == IF pixel_camera[entity].smoothing THEN 2 ELSE 0
Bound(entity) == entity \in spawned /\ camera[entity].target.kind = "Image"
\* The render target is in step with the window: it was created in this
\* frame, or update_viewport_size has seen the window's last change.
InStep(entity) ==
    references[entity].state = "queued" \/ ~windows[PrimaryWindow].changed

\* C1: right after binding and after every frame of window-resolution changes,
\* the render target of a camera is calculate(strategy, window resolution) plus
\* 2 per axis when smoothing is enabled and plus 0 when it is not.
RenderTargetIsPolicyPlusBorder ==
    \A entity \in Cams :
        Bound(entity) /\ InStep(entity) =>
            /\ RenderTarget(entity).size.width = PolicySize(entity).width + Border(entity)
            /\ RenderTarget(entity).size.height = PolicySize(entity).height + Border(entity)

\* A smoothing camera, bound at one resolution, at the end of a frame that
\* resized its render target for another resolution.
ResizedWithBorder ==
    \E entity \in Cams :
        /\ Idle
        /\ references[entity].state = "inserted"
        /\ pixel_camera[entity].smoothing
        /\ ~windows[PrimaryWindow].changed
        /\ Resolution # Extent3d(MaxWin, MaxWin)
        /\ RenderTarget(entity).size =
                Extent3d(PolicySize(entity).width + 2, PolicySize(entity).height + 2)

\* C2: for PixelFixed(n) the policy is (ceil(W/n), ceil(H/n)): the least whole
\* numbers whose n-fold covers the window; an 800 x 600 window with
\* PixelFixed(4) gives (200, 150), and a smoothing camera bound under it gets a
\* render target of (202, 152).
PixelFixedIsCeiling ==
    \A entity \in spawned :
        LET n == pixel_camera[entity].viewport_size.a
            out == PolicySize(entity)
        IN  pixel_camera[entity].viewport_size.kind = "PixelFixed" =>
                /\ out.width * n >= Resolution.width
                /\ (out.width - 1) * n < Resolution.width
                /\ out.height * n >= Resolution.height
                /\ (out.height - 1) * n < Resolution.height
                /\ (n = 4 /\ Resolution = Extent3d(800, 600)) =>
                        /\ out = Extent3d(200, 150)
                        /\ (Bound(entity) /\ InStep(entity) /\ pixel_camera[entity].smoothing) =>
                                RenderTarget(entity).size = Extent3d(202, 152)

\* A smoothing PixelFixed(4) camera bound under the 800 x 600 window.
PixelFixedEndToEnd ==
    \E entity \in spawned :
        /\ pixel_camera[entity].viewport_size = PixelFixed(4)
        /\ pixel_camera[entity].smoothing
        /\ Resolution = Extent3d(800, 600)
        /\ references[entity].state = "queued"
        /\ RenderTarget(entity).size = Extent3d(202, 152)

\* C3: for every strategy but Custom and every window of at least 1 x 1, the
\* policy's width and height are at least 1.
PolicyAtLeastOne ==
    \A entity \in spawned :
        pixel_camera[entity].viewport_size.kind # "Custom" =>
            PolicySize(entity).width >= 1 /\ PolicySize(entity).height >= 1

\* C4: for AutoMin(min_w, min_h) both axes reach their minimum, one axis is at
\* its minimum, and the other is the truncation of the value that keeps the
\* window's aspect ratio.
AutoMinKeepsMinimum ==
    \A entity \in spawned :
        LET min_w == pixel_camera[entity].viewport_size.a
            min_h == pixel_camera[entity].viewport_size.b
            out == PolicySize(entity)
            W == Resolution.width
            H == Resolution.height
        IN  pixel_camera[entity].viewport_size.kind = "AutoMin" =>
                /\ out.width >= min_w
                /\ out.height >= min_h
                /\ \/ /\ out.height = min_h
                      /\ out.width * H <= W * min_h
                      /\ W * min_h < (out.width + 1) * H
                   \/ /\ out.width = min_w
                      /\ out.height * W <= H * min_w
                      /\ H * min_w < (out.height + 1) * W

\* An AutoMin camera bound under a window that pins the height and leaves a
\* width above the minimum that had to be truncated.
AutoMinTruncates ==
    \E entity \in spawned :
        /\ pixel_camera[entity].viewport_size.kind = "AutoMin"
        /\ Bound(entity)
        /\ PolicySize(entity).height = pixel_camera[entity].viewport_size.b
        /\ PolicySize(entity).width > pixel_camera[entity].viewport_size.a
        /\ PolicySize(entity).width * Resolution.height
                < Resolution.width * pixel_camera[entity].viewport_size.b

\* C5: for AutoMax(max_w, max_h) neither axis exceeds its maximum and one axis
\* is at its maximum.
AutoMaxKeepsMaximum ==
    \A entity \in spawned :
        LET max_w == pixel_camera[entity].viewport_size.a
            max_h == pixel_camera[entity].viewport_size.b
            out == PolicySize(entity)
        IN  pixel_camera[entity].viewport_size.kind = "AutoMax" =>
                /\ out.width <= max_w
                /\ out.height <= max_h
                /\ (out.width = max_w \/ out.height = max_h)

\* An AutoMax camera bound under a window that pins the width and leaves a
\* height below the maximum.
AutoMaxBelowMaximum ==
    \E entity \in spawned :
        /\ pixel_camera[entity].viewport_size.kind = "AutoMax"
        /\ Bound(entity)
        /\ PolicySize(entity).width = pixel_camera[entity].viewport_size.a
        /\ PolicySize(entity).height < pixel_camera[entity].viewport_size.b
        /\ PolicySize(entity).height >= 1

\* C6: with smoothing enabled, position-apply writes the floor of the
\* continuous position to the logical camera and position minus floor, per
\* axis, as the offset of the display surface: (3.7, -2.3) gives (3, -3) and
\* (0.7, 0.7).
\* The floor of a fixed-point coordinate: the whole number of pixels at or below it.
Floor(p) == (p \div PosDen) * PosDen
Applied(entity) ==
    /\ references[entity].state = "inserted"
    /\ pixel_camera[entity].smoothing
    /\ {"set_camera_position", "smooth_camera"} \subseteq ran
    /\ ~crashed
SplitIsFloorAndRemainder ==
    \A entity \in spawned :
        LET pos == pixel_camera[entity].subpixel_pos
            rect == sprites[references[entity].sprite].rect
        IN  Applied(entity) =>
                /\ transform[entity] = Vec2(Floor(pos.x), Floor(pos.y))
                /\ rect.some
                /\ rect.min.x - PosDen = pos.x - Floor(pos.x)
                /\ rect.min.y - PosDen = pos.y - Floor(pos.y)
                /\ pos = Vec2(3 * PosDen + 7, -(2 * PosDen + 3)) =>
                        /\ transform[entity] = Vec2(3 * PosDen, -3 * PosDen)
                        /\ rect.min = Vec2(PosDen + 7, PosDen + 7)

\* C7: a PixelCamera gets at most one ViewportBinding: every render target,
\* display surface and viewport camera ever created belongs to the one binding
\* of a camera, however often the bind transition runs.
AtMostOneBinding ==
    LET bound == {entity \in Cams : Bound(entity)}
        referring == {entity \in Cams : references[entity].state # "none"}
    IN  /\ Len(images) = Cardinality(bound)
        /\ Len(sprites) = Cardinality(bound)
        /\ Len(viewport_cameras) = Cardinality(referring)
        /\ \A a, b \in bound :
                camera[a].target.image = camera[b].target.image => a = b
        /\ \A a, b \in referring :
                (references[a].sprite = references[b].sprite
                    \/ references[a].camera = references[b].camera) => a = b

\* A Bound camera in a later frame, after init_camera has run again.
BoundAndInitRanAgain ==
    \E entity \in Cams :
        /\ references[entity].state = "inserted"
        /\ "init_camera" \in ran
        /\ ~crashed
        /\ Len(images) = 1

\* C8: a camera whose viewport layers overlap the world camera's layers (layer
\* 0 when it has none), or whose render order is not below the viewport order,
\* gets a configuration error from the bind transition and no binding: no
\* render target, no display surface, no viewport camera.
Misconfigured(entity) ==
    \/ intersects(pixel_camera[entity].viewport_layer,
                  IF world_layer[entity].some THEN world_layer[entity].layers
                  ELSE RenderLayersLayer(0))
    \/ camera[entity].order >= pixel_camera[entity].viewport_order
ConfigurationErrors ==
    {"world_layers_intersect", "default_layer_intersects", "no_render_layers",
     "order_not_below_viewport"}
MisconfiguredIsRefused ==
    \A entity \in spawned :
        Misconfigured(entity) =>
            /\ ~Bound(entity)
            /\ references[entity].state = "none"
            /\ \A win \in Windows :
                LET w == InitCameraBody(World, entity, windows[win])
                IN  (entity \in added /\ windows[win].exists) =>
                        /\ \E e \in w.errors \ errors :
                                /\ e.entity = entity
                                /\ e.message \in ConfigurationErrors
                        /\ w.stop
                        /\ w.images = images
                        /\ w.sprites = sprites
                        /\ w.viewport_cameras = viewport_cameras
                        /\ w.references = references
                        /\ w.camera = camera

\* init_camera has just refused a misconfigured camera, next to a Bound one.
RefusedInThisFrame ==
    \E entity \in spawned, other \in spawned :
        /\ Misconfigured(entity)
        /\ entity \notin added
        /\ Bound(other)
        /\ \E e \in errors : e.entity = entity /\ e.message \in ConfigurationErrors

\* C9: once the window is back at a resolution it had at an earlier frame end,
\* after frames at another resolution, the render target has the size it had
\* at that frame end.
RoundTripRestoresSize ==
    (Idle /\ origin.taken /\ origin.away /\ ~windows[PrimaryWindow].changed
          /\ Resolution = origin.resolution) =>
        \A entity \in Cams :
            origin.sizes[entity].bound => RenderTarget(entity) = origin.sizes[entity]

\* The window is back at the recorded resolution after a frame elsewhere, and
\* the camera recorded there has been resized for it.
BackAtOrigin ==
    /\ Idle
    /\ origin.taken
    /\ origin.away
    /\ ~windows[PrimaryWindow].changed
    /\ Resolution = origin.resolution
    /\ \E entity \in Cams :
        /\ origin.sizes[entity].bound
        /\ references[entity].state = "inserted"
        /\ RenderTarget(entity) = origin.sizes[entity]

\* C10: an error on one camera keeps no other camera from being processed in
\* the same frame: every camera init_camera has seen and that has no
\* configuration error of its own is bound, and every Bound camera whose own
\* viewport camera, window and render target are intact is resized once
\* update_viewport_size has seen the window's change.
HasConfigError(entity) ==
    \/ LayerCheck(pixel_camera[entity].viewport_layer, world_layer[entity]) # "ok"
    \/ OrderCheck(camera[entity].order, pixel_camera[entity].viewport_order) # "ok"
Intact(entity) ==
    /\ references[entity].state = "inserted"
    /\ viewport_cameras[references[entity].camera].state = "alive"
    /\ viewport_cameras[references[entity].camera].target = TargetWindow("Primary")
    /\ windows[PrimaryWindow].exists
    /\ images[camera[entity].target.image].live
ErrorsStayWithTheirCamera ==
    ~crashed =>
        \A entity \in spawned :
            /\ (entity \notin added /\ ~HasConfigError(entity)) => Bound(entity)
            /\ (Bound(entity) /\ Intact(entity) /\ ~windows[PrimaryWindow].changed) =>
                    /\ RenderTarget(entity).size.width
                            = PolicySize(entity).width + Border(entity)
                    /\ RenderTarget(entity).size.height
                            = PolicySize(entity).height + Border(entity)

\* C11: a bind attempt that finds no window leaves the camera Unbound and
\* pending, in a running application, so that it is attempted again in the
\* following frames: while no window exists, every camera without a
\* configuration error of its own that is not Bound is still waiting for
\* init_camera, and nothing has crashed.
NoWindow == \A win \in Windows : ~windows[win].exists
NoWindowBindIsRetried ==
    \A entity \in spawned :
        (NoWindow /\ ~Bound(entity) /\ ~HasConfigError(entity)) =>
            ~crashed /\ entity \in added

\* C12: no frame panics on an expected runtime condition (no window or several
\* windows, a destroyed render target image, display surface or viewport
\* camera): in a build that wraps on integer overflow, where these conditions
\* are the only sources of a panic, the application never crashes.
NoPanicOnExpectedConditions == ~overflow_checks => ~crashed

\* C13: for fixed n, PixelFixed(n) is monotonically non-decreasing in the
\* window size: a window at least as wide and as high gives a policy at least
\* as wide and as high; and so for the render targets of a PixelFixed camera at
\* two frame ends.
AtMost(small, large) == small.width <= large.width /\ small.height <= large.height
Settled(entity) ==
    /\ Idle
    /\ references[entity].state = "inserted"
    /\ ~windows[PrimaryWindow].changed
PixelFixedIsMonotone ==
    \A entity \in spawned :
        pixel_camera[entity].viewport_size.kind = "PixelFixed" =>
            /\ \A larger \in Resolutions :
                    AtMost(Resolution, larger) =>
                        AtMost(PolicySize(entity),
                               calculate(pixel_camera[entity].viewport_size, larger))
            /\ (origin.taken /\ origin.sizes[entity].bound /\ Settled(entity)) =>
                    /\ AtMost(origin.resolution, Resolution) =>
                            AtMost(origin.sizes[entity].size, RenderTarget(entity).size)
                    /\ AtMost(Resolution, origin.resolution) =>
                            AtMost(RenderTarget(entity).size, origin.sizes[entity].size)

\* A PixelFixed camera recorded under a small window and resized under a larger
\* one: its render target grew on one axis and stayed on the other.
PixelFixedGrewWithWindow ==
    \E entity \in spawned :
        /\ pixel_camera[entity].viewport_size.kind = "PixelFixed"
        /\ origin.taken
        /\ origin.sizes[entity].bound
        /\ Settled(entity)
        /\ origin.resolution.width < Resolution.width
        /\ origin.resolution.height < Resolution.height
        /\ origin.sizes[entity].size.width < RenderTarget(entity).size.width
        /\ origin.sizes[entity].size.height = RenderTarget(entity).size.height

\* update_viewport_size runs in this step and resizes the camera: the camera
\* is Bound with its references in place, and the primary window its viewport
\* camera targets exists and has changed since the system last ran.
ResizeStep(entity) ==
    /\ "update_viewport_size" \notin ran
    /\ "update_viewport_size" \in ran'
    /\ ~crashed'
    /\ references[entity].state = "inserted"
    /\ viewport_cameras[references[entity].camera].state = "alive"
    /\ viewport_cameras[references[entity].camera].target = TargetWindow("Primary")
    /\ windows[PrimaryWindow].exists
    /\ windows[PrimaryWindow].changed
FitModeOf(entity) ==
    IF pixel_camera[entity].viewport_size.kind \in {"Fixed", "Custom"}
    THEN pixel_camera[entity].viewport_size.fit.mode
    ELSE "-"
Projection(entity) == viewport_cameras[references[entity].camera].scaling_mode
\* The projection has the aspect ratio of the window.
HasWindowAspect(projection) ==
    projection.width[1] * projection.height[2] * Resolution.height
        = projection.height[1] * projection.width[2] * Resolution.width
\* An f32 value against a whole number.
RatAtLeast(r, k) == r[1] >= k * r[2]
RatAtMost(r, k) == r[1] <= k * r[2]

\* C14: with fit mode Fit on a Fixed or Custom strategy, a resize leaves the
\* viewport camera with a projection of the window's aspect ratio that is at
\* least as wide and as high as the viewport and equal to it on one axis.
FitContainsViewport ==
    [][\A entity \in spawned :
            (ResizeStep(entity) /\ FitModeOf(entity) = "Fit") =>
                /\ HasWindowAspect(Projection(entity)')
                /\ RatAtLeast(Projection(entity)'.width, PolicySize(entity).width)
                /\ RatAtLeast(Projection(entity)'.height, PolicySize(entity).height)
                /\ \/ Projection(entity)'.width = RatOfInt(PolicySize(entity).width)
                   \/ Projection(entity)'.height = RatOfInt(PolicySize(entity).height)]_vars

\* A Fit camera after a resize under a window wider than its viewport: the
\* projection is as high as the viewport and strictly wider.
FitLetterboxed ==
    \E entity \in spawned :
        /\ FitModeOf(entity) = "Fit"
        /\ Settled(entity)
        /\ Resolution.width * PolicySize(entity).height
                > Resolution.height * PolicySize(entity).width
        /\ Projection(entity).height = RatOfInt(PolicySize(entity).height)
        /\ ~RatAtMost(Projection(entity).width, PolicySize(entity).width)

\* C15: with fit mode Crop on a Fixed or Custom strategy, a resize leaves the
\* viewport camera with a projection of the window's aspect ratio that is at
\* most as wide and as high as the viewport.
CropInsideViewport ==
    [][\A entity \in spawned :
            (ResizeStep(entity) /\ FitModeOf(entity) = "Crop") =>
                /\ HasWindowAspect(Projection(entity)')
                /\ RatAtMost(Projection(entity)'.width, PolicySize(entity).width)
                /\ RatAtMost(Projection(entity)'.height, PolicySize(entity).height)]_vars

\* A Crop camera after a resize under a window of another shape than its
\* viewport: the projection is strictly smaller than the viewport on one axis.
CropCutsViewport ==
    \E entity \in spawned :
        /\ FitModeOf(entity) = "Crop"
        /\ Settled(entity)
        /\ pixel_camera[entity].smoothing
        /\ HasWindowAspect(Projection(entity))
        /\ RatAtMost(Projection(entity).width, PolicySize(entity).width)
        /\ ~RatAtLeast(Projection(entity).height, PolicySize(entity).height)

\* C16: clear_color is the configured fill colour exactly for a Fixed or Custom
\* strategy with fit mode Fit(colour) and None for every other strategy and fit
\* mode, and the viewport camera the bind transition creates has this value as
\* its clear colour.
ClearColorIsFillPolicy ==
    \A entity \in spawned :
        LET viewport_size == pixel_camera[entity].viewport_size
            fill == clear_color(viewport_size)
        IN  /\ FitModeOf(entity) = "Fit" => fill = viewport_size.fit.color
            /\ FitModeOf(entity) # "Fit" => fill = "None"
            /\ references[entity].state = "queued" =>
                    viewport_cameras[references[entity].camera].clear_color = fill

\* The bind transition has just created the viewport camera of a Custom
\* strategy with fit mode Fit(colour): its clear colour is that colour.
BoundWithFillColour ==
    \E entity \in spawned :
        /\ pixel_camera[entity].viewport_size.kind = "Custom"
        /\ pixel_camera[entity].viewport_size.fit = Fit("Custom")
        /\ references[entity].state = "queued"
        /\ viewport_cameras[references[entity].camera].clear_color = "Custom"

\* C17: resize-on-change and position-apply act only on Bound cameras: the
\* transform of a PixelCamera that has no ViewportBinding, before and after the
\* step, and that init_camera has already seen (and refused), is not written.
OnlyBoundAreWritten ==
    [][\A entity \in spawned :
            (/\ references[entity].state = "none"
             /\ references'[entity].state = "none"
             /\ entity \notin added) =>
                transform'[entity] = transform[entity]]_vars

\* C18: within a frame the bind transition runs before resize-on-change and
\* position-apply: while a camera still waits for this frame's init_camera, no
\* other system of the frame has run.
BindRunsFirst ==
    \A entity \in spawned :
        (entity \in added /\ "init_camera" \notin ran) => ran = {}

\* C19: resize-on-change is edge-triggered: a step taken while the window that
\* the viewport camera of a Bound camera targets has not changed since
\* update_viewport_size last ran leaves the camera's render-target size and its
\* viewport camera's projection and clear colour as they are.
ViewportCameraOf(entity) == viewport_cameras[references[entity].camera]
TargetedWindow(entity) ==
    IF ViewportCameraOf(entity).target.window = "Primary"
    THEN PrimaryWindow
    ELSE ViewportCameraOf(entity).target.window
ResizeIsEdgeTriggered ==
    [][\A entity \in spawned :
            (/\ references[entity].state = "inserted"
             /\ ViewportCameraOf(entity).target.kind = "Window"
             /\ ~windows[TargetedWindow(entity)].changed) =>
                /\ RenderTarget(entity)' = RenderTarget(entity)
                /\ ViewportCameraOf(entity)'.scaling_mode = ViewportCameraOf(entity).scaling_mode
                /\ ViewportCameraOf(entity)'.clear_color = ViewportCameraOf(entity).clear_color]_vars

\* update_viewport_size has run in this frame over a Bound camera without
\* smoothing whose window had not changed: the viewport camera still has the
\* projection the bind transition gave it, not the one a resize would set.
SkippedUnchangedWindow ==
    \E entity \in spawned :
        /\ references[entity].state = "inserted"
        /\ ~pixel_camera[entity].smoothing
        /\ "update_viewport_size" \in ran
        /\ ~crashed
        /\ errors = {}
        /\ ViewportCameraOf(entity).state = "alive"
        /\ ViewportCameraOf(entity).target = TargetWindow("Primary")
        /\ windows[PrimaryWindow].exists
        /\ RenderTarget(entity).bound
        /\ Projection(entity) = ScalingFixed(MinusTwoAsF32(RenderTarget(entity).size.width),
                                             MinusTwoAsF32(RenderTarget(entity).size.height))

\* C20: a PixelCamera whose viewport layer mask is empty never becomes Bound,
\* whether or not the world camera carries its own RenderLayers: it has no
\* render target and no references.
EmptyMaskIsRefused ==
    \A entity \in spawned :
        pixel_camera[entity].viewport_layer = {} =>
            /\ ~Bound(entity)
            /\ references[entity].state = "none"

\* C21: when all systems of a frame have run and a Bound camera's smoothing
\* flag is false, its display surface carries no sub-pixel offset (the rect is
\* unset, or starts at the border pixel exactly) and the camera's transform is
\* on whole pixels; also after smoothing was on in earlier frames.
FrameDone == ran = Systems /\ ~crashed
RectOf(entity) == sprites[references[entity].sprite].rect
SmoothingOffHasNoOffset ==
    \A entity \in spawned :
        (FrameDone /\ references[entity].state = "inserted"
                   /\ ~pixel_camera[entity].smoothing) =>
            /\ ~RectOf(entity).some \/ RectOf(entity).min = Vec2(PosDen, PosDen)
            /\ transform[entity].x % PosDen = 0
            /\ transform[entity].y % PosDen = 0

\* C22: for every continuous position, negative or positive on either axis,
\* the remainder that position-apply gives the display surface is in [0, 1) on
\* each axis and is the continuous position minus the whole-pixel part written
\* to the camera's transform.
RemainderOf(entity) == Vec2(RectOf(entity).min.x - PosDen, RectOf(entity).min.y - PosDen)
RemainderInUnitRange ==
    \A entity \in spawned :
        LET pos == pixel_camera[entity].subpixel_pos
            remainder == RemainderOf(entity)
        IN  Applied(entity) =>
                /\ RectOf(entity).some
                /\ 0 <= remainder.x /\ remainder.x < PosDen
                /\ 0 <= remainder.y /\ remainder.y < PosDen
                /\ remainder.x = pos.x - transform[entity].x
                /\ remainder.y = pos.y - transform[entity].y

\* C23: FixedWidth(w) gives width w and a height that is the truncation of
\* window_height * w / window_width; FixedHeight(h) gives height h and a width
\* that is the truncation of window_width * h / window_height; for the window
\* of every camera and for every window resolution of at least 1 x 1.
TruncatedQuotient(q, n, d) == q * d <= n /\ n < (q + 1) * d
FixedAxisKeepsAspect(self, window_resolution) ==
    LET out == calculate(self, window_resolution)
        W == window_resolution.width
        H == window_resolution.height
    IN  /\ self.kind = "FixedWidth" =>
                out.width = self.a /\ TruncatedQuotient(out.height, H * self.a, W)
        /\ self.kind = "FixedHeight" =>
                out.height = self.a /\ TruncatedQuotient(out.width, W * self.a, H)
FixedAxisIsTruncatedAspect ==
    \A entity \in spawned :
        /\ FixedAxisKeepsAspect(pixel_camera[entity].viewport_size, Resolution)
        /\ \A window_resolution \in SampleResolutions :
                FixedAxisKeepsAspect(pixel_camera[entity].viewport_size, window_resolution)
\* A Bound FixedWidth camera whose render target has the truncated height of a
\* window whose height * w is not a multiple of its width.
FixedWidthTruncated ==
    \E entity \in spawned :
        /\ pixel_camera[entity].viewport_size.kind = "FixedWidth"
        /\ Bound(entity) /\ InStep(entity) /\ ~crashed
        /\ (Resolution.height * pixel_camera[entity].viewport_size.a) % Resolution.width # 0
        /\ images[camera[entity].target.image].size =
                Extent3d(PolicySize(entity).width + Border(entity),
                         PolicySize(entity).height + Border(entity))

\* C24: right after the bind transition the viewport camera's fixed projection
\* is the policy output (the render target without the smoothing border), with
\* smoothing on and with smoothing off, and for a policy output of at least
\* 1 x 1 the bind transition computes it without underflow.
PolicyIsPositive(entity) == PolicySize(entity).width >= 1 /\ PolicySize(entity).height >= 1
BindProjectionIsPolicy ==
    \A entity \in spawned :
        PolicyIsPositive(entity) =>
            /\ ~crashed
            /\ references[entity].state = "queued" =>
                    Projection(entity) = ScalingFixed(RatOfInt(PolicySize(entity).width),
                                                      RatOfInt(PolicySize(entity).height))

\* C25: after position-apply on a Bound camera with smoothing enabled, the
\* visible rect of the display surface lies inside the render target (0 <= min
\* and max <= size on both axes) and its width and height are the render-target
\* size minus 2, which is the policy output, for every continuous position.
RectExtent(rect) == Vec2(rect.max.x - rect.min.x, rect.max.y - rect.min.y)
RectInsideRenderTarget ==
    \A entity \in spawned :
        LET rect == RectOf(entity)
            size == images[camera[entity].target.image].size
        IN  Applied(entity) /\ Bound(entity) /\ InStep(entity) =>
                /\ rect.some
                /\ 0 <= rect.min.x /\ rect.max.x <= size.width * PosDen
                /\ 0 <= rect.min.y /\ rect.max.y <= size.height * PosDen
                /\ RectExtent(rect) = Vec2((size.width - 2) * PosDen, (size.height - 2) * PosDen)
                /\ RectExtent(rect) = Vec2(PolicySize(entity).width * PosDen,
                                           PolicySize(entity).height * PosDen)

\* C26: with fit mode Crop the crop is tight: after a resize the projection of
\* the viewport camera is as wide as the viewport or as high as the viewport,
\* for every viewport size and every window aspect ratio.
RatIs(r, k) == RatAtLeast(r, k) /\ RatAtMost(r, k)
CropIsTight ==
    [][\A entity \in spawned :
            (ResizeStep(entity) /\ FitModeOf(entity) = "Crop") =>
                \/ RatIs(Projection(entity)'.width, PolicySize(entity).width)
                \/ RatIs(Projection(entity)'.height, PolicySize(entity).height)]_vars

=============================================================================
